---- MODULE Spec2Model ----
(***************************************************************************)
(* School Scheduler (src/app.py): a Streamlit session holding a list of    *)
(* class entries, an add/edit form and the weekly grid layout.             *)
(*                                                                         *)
(* Representation.  A Python str is a sequence of one-character strings    *)
(* (so that str.strip, strftime and strptime are computed, not assumed);   *)
(* a datetime.time is the pair <<hour, minute>> (st.time_input yields      *)
(* whole minutes); an id str(uuid.uuid4()) is the ordinal of the uuid4     *)
(* call that produced it; a float number of pixels is the exact rational   *)
(* [num, den].                                                             *)
(***************************************************************************)
EXTENDS Integers, Sequences, FiniteSets, TLC

VARIABLES
    schedule,         \* st.session_state.schedule
    editing_id,       \* st.session_state.editing_id
    modal_open,       \* st.session_state.modal_open
    selected_color,   \* st.session_state.selected_color
    form_subject,     \* st.session_state.form_subject
    form_teacher,     \* st.session_state.form_teacher
    form_room,        \* st.session_state.form_room
    form_day,         \* st.session_state.form_day
    form_start_time,  \* st.session_state.form_start_time
    form_end_time,    \* st.session_state.form_end_time
    form_data,        \* the dict bound to the submit button by the last render
    message,          \* what the last script run emitted: st.error / st.toast
    uuid_calls        \* number of uuid.uuid4() calls made so far

vars == <<schedule, editing_id, modal_open, selected_color, form_subject,
          form_teacher, form_room, form_day, form_start_time, form_end_time,
          form_data, message, uuid_calls>>

formVars == <<form_subject, form_teacher, form_room, form_day,
              form_start_time, form_end_time>>

----------------------------------------------------------------------------
(* Bounds of the model *)

\* uuid.uuid4() is called at most MaxUuid times (so at most MaxUuid entries)
MaxUuid == 3

----------------------------------------------------------------------------
(* Constants of the program *)

DAYS == <<"Monday", "Tuesday", "Wednesday", "Thursday", "Friday">>

COLORS == << [name |-> "Blue",   value |-> "#3B82F6"],
             [name |-> "Purple", value |-> "#8B5CF6"],
             [name |-> "Pink",   value |-> "#EC4899"],
             [name |-> "Green",  value |-> "#10B981"],
             [name |-> "Orange", value |-> "#F59E0B"],
             [name |-> "Red",    value |-> "#EF4444"],
             [name |-> "Teal",   value |-> "#14B8A6"],
             [name |-> "Indigo", value |-> "#6366F1"] >>

\* Python's None (ids are the ordinals 1, 2, ...)
None == 0

\* a session-state key that has not been assigned yet
Absent == <<"absent">>

\* the form is not on the page: no dict is bound to any submit button
NotRendered == [subject |-> Absent, teacher |-> Absent, room |-> Absent,
                day |-> Absent, startTime |-> Absent, endTime |-> Absent,
                color |-> Absent]

----------------------------------------------------------------------------
(* Python library functions used by the program *)

RECURSIVE lstrip(_)
lstrip(s) == IF s # <<>> /\ Head(s) = " " THEN lstrip(Tail(s)) ELSE s

RECURSIVE rstrip(_)
rstrip(s) == IF s # <<>> /\ s[Len(s)] = " "
             THEN rstrip(SubSeq(s, 1, Len(s) - 1)) ELSE s

\* str.strip()
strip(s) == rstrip(lstrip(s))

Digits == <<"0", "1", "2", "3", "4", "5", "6", "7", "8", "9">>

DigitChar(n) == Digits[n + 1]

DigitValue(c) == (CHOOSE i \in 1..10 : Digits[i] = c) - 1

\* datetime.time.strftime("%H:%M")
strftime(t) == << DigitChar(t[1] \div 10), DigitChar(t[1] % 10), ":",
                  DigitChar(t[2] \div 10), DigitChar(t[2] % 10) >>

\* datetime.datetime.strptime(s, "%H:%M"): the (hour, minute) of the result
strptime(s) == << DigitValue(s[1]) * 10 + DigitValue(s[2]),
                  DigitValue(s[4]) * 10 + DigitValue(s[5]) >>

\* datetime.time.__ge__
TimeGE(a, b) == a[1] > b[1] \/ (a[1] = b[1] /\ a[2] >= b[2])

\* all(data.values()): every value is truthy; a str is truthy when it is not
\* empty, a datetime.time always is
AllValues(data) ==
    /\ data.subject # <<>>
    /\ data.teacher # <<>>
    /\ data.room # <<>>
    /\ data.day # ""
    /\ data.color # ""

\* list.index
ListIndex(list, v) == (CHOOSE i \in 1..Len(list) : list[i] = v) - 1

----------------------------------------------------------------------------
(* Helpers over the schedule *)

Ids(sched) == {sched[i].id : i \in 1..Len(sched)}

\* next((i for i, item in enumerate(schedule) if item['id'] == id), -1),
\* 1-based, 0 for -1
FindIndex(sched, id) ==
    IF \E i \in 1..Len(sched) : sched[i].id = id
    THEN CHOOSE i \in 1..Len(sched) :
            sched[i].id = id /\ \A j \in 1..(i - 1) : sched[j].id # id
    ELSE 0

----------------------------------------------------------------------------
(* What the user can type into the form *)

\* the class of Scenario 1: Monday 09:00-10:00
Math == [subject |-> <<"M">>, teacher |-> <<"T">>, room |-> <<"R">>,
         day |-> "Monday", startTime |-> <<9, 0>>, endTime |-> <<10, 0>>]

\* a second class the same day, later and half as long, whose subject is
\* only a blank and whose teacher is typed with a trailing blank
Untitled == [subject |-> <<" ">>, teacher |-> <<"T", " ">>, room |-> <<"R">>,
             day |-> "Monday", startTime |-> <<10, 0>>, endTime |-> <<10, 30>>]

\* the fillings of the form that are tried: two complete ones, one with a
\* field left empty, one with the times reversed (Scenario 2), one with
\* equal times
WidgetValues ==
    { Math, Untitled,
      [Math EXCEPT !.teacher = <<>>],
      [Math EXCEPT !.startTime = <<10, 0>>, !.endTime = <<9, 0>>],
      [Math EXCEPT !.endTime = <<9, 0>>] }

\* the colour buttons tried
ColorChoices == {COLORS[1].value, COLORS[2].value}

----------------------------------------------------------------------------
(* render_schedule_grid: the placement of one class block *)

\* a float, as the exact rational it stands for
Rat(n, d) == [num |-> n, den |-> d]
RatEq(a, b) == a.num * b.den = b.num * a.den
RatLE(a, b) == a.num * b.den <= b.num * a.den
RatTimes(k, a) == Rat(k * a.num, a.den)
RatOfInt(k) == Rat(k, 1)

\* hour * 60 + minute of a parsed "%H:%M" string
MinuteOfDay(s) == strptime(s)[1] * 60 + strptime(s)[2]

day_index(cls) == ListIndex(DAYS, cls.day)

\* mutant: minutes since midnight, the 8:00 AM origin forgotten
start_minute_of_day_FromMidnight(cls) == MinuteOfDay(cls.startTime)

\* minutes since 8:00 AM
start_minute_of_day(cls) == MinuteOfDay(cls.startTime) - (8 * 60)

\* (end_time_obj - start_time_obj).total_seconds() / 60
duration_minutes(cls) == MinuteOfDay(cls.endTime) - MinuteOfDay(cls.startTime)

\* 48px per 30 minutes
minute_to_pixel_ratio == Rat(48, 30)

\* mutant: the height taken from the end time instead of the duration
height_px_FromEndTime(cls) ==
    RatTimes(MinuteOfDay(cls.endTime) - (8 * 60), minute_to_pixel_ratio)

top_offset(cls) == RatTimes(start_minute_of_day(cls), minute_to_pixel_ratio)

height_px(cls) == RatTimes(duration_minutes(cls), minute_to_pixel_ratio)

\* grid-column of the class block
grid_column(cls) == day_index(cls) + 2

----------------------------------------------------------------------------
(* The program *)

Init ==
    /\ schedule = <<>>
    /\ editing_id = None
    /\ modal_open = FALSE
    /\ selected_color = COLORS[1].value
    /\ form_subject = Absent
    /\ form_teacher = Absent
    /\ form_room = Absent
    /\ form_day = Absent
    /\ form_start_time = Absent
    /\ form_end_time = Absent
    /\ form_data = NotRendered
    /\ message = "none"
    /\ uuid_calls = 0

\* render_schedule_form, reached from main only when modal_open: the dict
\* built from the session state at the start of the render
RenderForm ==
    form_data' = IF modal_open'
                 THEN [subject   |-> form_subject',
                       teacher   |-> form_teacher',
                       room      |-> form_room',
                       day       |-> form_day',
                       startTime |-> form_start_time',
                       endTime   |-> form_end_time',
                       color     |-> selected_color']
                 ELSE NotRendered

clear_form_state ==
    /\ editing_id' = None
    /\ modal_open' = FALSE
    /\ form_subject' = <<>>
    /\ form_teacher' = <<>>
    /\ form_room' = <<>>
    /\ form_day' = DAYS[1]
    /\ form_start_time' = <<9, 0>>
    /\ form_end_time' = <<10, 0>>
    /\ selected_color' = COLORS[1].value

\* the "Add Class" button of main
open_add_modal ==
    /\ editing_id' = None
    /\ form_subject' = <<>>
    /\ form_teacher' = <<>>
    /\ form_room' = <<>>
    /\ form_day' = DAYS[1]
    /\ form_start_time' = <<9, 0>>
    /\ form_end_time' = <<10, 0>>
    /\ selected_color' = COLORS[1].value
    /\ modal_open' = TRUE
    /\ message' = "none"
    /\ UNCHANGED <<schedule, uuid_calls>>
    /\ RenderForm

load_edit_data(item_id) ==
    LET index == FindIndex(schedule, item_id) IN
    /\ IF index # 0
       THEN LET cls == schedule[index] IN
            /\ editing_id' = item_id
            /\ modal_open' = TRUE
            /\ form_subject' = cls.subject
            /\ form_teacher' = cls.teacher
            /\ form_room' = cls.room
            /\ form_day' = cls.day
            /\ form_start_time' = strptime(cls.startTime)
            /\ form_end_time' = strptime(cls.endTime)
            /\ selected_color' = cls.color
       ELSE UNCHANGED <<editing_id, modal_open, selected_color, formVars>>
    /\ message' = "none"
    /\ UNCHANGED <<schedule, uuid_calls>>
    /\ RenderForm

\* mutant: the validation with > for >=, so equal times pass
Rejected_StrictlyGreater(data) ==
    ~AllValues(data) \/ (TimeGE(data.startTime, data.endTime)
                           /\ data.startTime # data.endTime)

\* the validation of add_update_class
Rejected(data) ==
    ~AllValues(data) \/ TimeGE(data.startTime, data.endTime)

\* item_data of add_update_class
ItemData(data) ==
    [subject   |-> strip(data.subject),
     teacher   |-> strip(data.teacher),
     room      |-> strip(data.room),
     day       |-> data.day,
     startTime |-> strftime(data.startTime),
     endTime   |-> strftime(data.endTime),
     color     |-> data.color]

\* mutant: the update forgets the colour
DictUpdate_KeepsColor(entry, item_data) ==
    [k \in DOMAIN entry |->
        IF k \in DOMAIN item_data \ {"color"} THEN item_data[k] ELSE entry[k]]

\* dict.update(item_data) on an entry: every key of item_data is overwritten
DictUpdate(entry, item_data) ==
    [k \in DOMAIN entry |->
        IF k \in DOMAIN item_data THEN item_data[k] ELSE entry[k]]

\* item_data with item_data['id'] = id
WithId(item_data, id) ==
    [k \in DOMAIN item_data \cup {"id"} |->
        IF k = "id" THEN id ELSE item_data[k]]

\* mutant: the id taken from the number of entries
uuid4_FromLength == Len(schedule) + 1

\* str(uuid.uuid4()): a value no earlier call returned
uuid4 == uuid_calls + 1

\* the schedule after add_update_class(data) passed validation
Stored(data) ==
    LET item_data == ItemData(data)
        index == FindIndex(schedule, editing_id) IN
    IF editing_id # None
    THEN IF index # 0
         THEN [schedule EXCEPT ![index] = DictUpdate(schedule[index], item_data)]
         ELSE schedule
    ELSE Append(schedule, WithId(item_data, uuid4))

\* the toast of add_update_class(data) after validation passed
Toast ==
    IF editing_id # None
    THEN IF FindIndex(schedule, editing_id) # 0 THEN "updated" ELSE "none"
    ELSE "added"

\* The "Add Class"/"Update Class" submit button of the form is pressed with
\* the widgets holding w: the widget values are written to the session state,
\* then the callback runs with the dict bound at the last render.
add_update_class(w) ==
    LET data == form_data IN
    /\ modal_open
    /\ IF Rejected(data)
       THEN /\ message' = "error"
            /\ form_subject' = w.subject
            /\ form_teacher' = w.teacher
            /\ form_room' = w.room
            /\ form_day' = w.day
            /\ form_start_time' = w.startTime
            /\ form_end_time' = w.endTime
            /\ UNCHANGED <<schedule, editing_id, modal_open, selected_color,
                           uuid_calls>>
       ELSE /\ editing_id = None => uuid_calls < MaxUuid
            /\ schedule' = Stored(data)
            /\ uuid_calls' = IF editing_id = None THEN uuid_calls + 1
                             ELSE uuid_calls
            /\ message' = Toast
            /\ clear_form_state
    /\ RenderForm

\* the "Cancel" submit button of the form
cancel ==
    /\ modal_open
    /\ clear_form_state
    /\ message' = "none"
    /\ UNCHANGED <<schedule, uuid_calls>>
    /\ RenderForm

\* a colour button of the form
select_color(value) ==
    /\ modal_open
    /\ selected_color' = value
    /\ message' = "none"
    /\ UNCHANGED <<schedule, editing_id, modal_open, formVars, uuid_calls>>
    /\ RenderForm

\* mutant: del schedule[index] with index -1 for an id that is not there,
\* which removes the last entry
delete_class_callback_DelIndex(item_id) ==
    LET index == FindIndex(schedule, item_id)
        at == IF index = 0 THEN Len(schedule) ELSE index IN
    /\ schedule' = SubSeq(schedule, 1, at - 1)
                       \o SubSeq(schedule, at + 1, Len(schedule))
    /\ message' = "deleted"
    /\ UNCHANGED <<editing_id, modal_open, selected_color, formVars,
                   uuid_calls>>
    /\ RenderForm

delete_class_callback(item_id) ==
    /\ schedule' = SelectSeq(schedule, LAMBDA item : item.id # item_id)
    /\ message' = "deleted"
    /\ UNCHANGED <<editing_id, modal_open, selected_color, formVars,
                   uuid_calls>>
    /\ RenderForm

\* The user's interactions.  load_edit_data and delete_class_callback take
\* the id from the page, so any id may arrive: one of an entry, one of a
\* deleted entry, one never issued.
OpenAdd == open_add_modal
LoadEdit == \E item_id \in 1..MaxUuid : load_edit_data(item_id)
Submit == \E w \in WidgetValues : add_update_class(w)
Cancel == cancel
SelectColor == \E value \in ColorChoices : select_color(value)
Delete == \E item_id \in 1..MaxUuid : delete_class_callback(item_id)

Next == OpenAdd \/ LoadEdit \/ Submit \/ Cancel \/ SelectColor \/ Delete

Spec == Init /\ [][Next]_vars

----------------------------------------------------------------------------
(* Properties *)

\* the dict the widgets w and the selected colour would make
WidgetData(w) ==
    [subject |-> w.subject, teacher |-> w.teacher, room |-> w.room,
     day |-> w.day, startTime |-> w.startTime, endTime |-> w.endTime,
     color |-> selected_color]

\* the submit button is pressed while the bound dict passes validation
Accepted == modal_open /\ ~Rejected(form_data) /\ Submit

StartBeforeEnd(sched) ==
    \A i \in 1..Len(sched) :
        ~TimeGE(strptime(sched[i].startTime), strptime(sched[i].endTime))

\* C1: every stored entry has startTime strictly before endTime, and an
\* add_update_class call whose data has startTime >= endTime is rejected and
\* leaves the schedule as it was.
C1_TimeOrdering ==
    /\ []StartBeforeEnd(schedule)
    /\ [][ ( /\ modal_open
              /\ TimeGE(form_data.startTime, form_data.endTime)
              /\ Submit )
            => (schedule' = schedule /\ message' = "error") ]_vars

\* an entry is stored and a dict whose only fault is its times was rejected
C1_Witness ==
    /\ Len(schedule) > 0
    /\ modal_open
    /\ message = "error"
    /\ AllValues(form_data)
    /\ TimeGE(form_data.startTime, form_data.endTime)

\* C2: no two entries of the schedule share an id: an add gives an id that
\* no entry has, an update keeps the ids as they are, a delete adds none.
C2_UniqueIds ==
    [][ /\ \A i, j \in 1..Len(schedule') :
             i # j => schedule'[i].id # schedule'[j].id
        /\ Len(schedule') > Len(schedule)
             => /\ Len(schedule') = Len(schedule) + 1
                /\ schedule'[Len(schedule')].id \notin Ids(schedule)
                /\ \A i \in 1..Len(schedule) : schedule'[i].id = schedule[i].id
        /\ Len(schedule') = Len(schedule)
             => \A i \in 1..Len(schedule) : schedule'[i].id = schedule[i].id
        /\ Len(schedule') < Len(schedule)
             => Ids(schedule') \subseteq Ids(schedule) ]_vars

\* an entry was added after an earlier one had been deleted
C2_Witness ==
    /\ message = "added"
    /\ Len(schedule) >= 2
    /\ uuid_calls > Len(schedule)

\* C3: required fields are validated non-empty before any mutation: every
\* stored entry has a non-empty subject, and a submission with a missing
\* required field stores nothing and changes no entry.
C3_RequiredFields ==
    [][ /\ \A i \in 1..Len(schedule') : schedule'[i].subject # <<>>
        /\ (modal_open /\ ~AllValues(form_data) /\ Submit)
             => schedule' = schedule ]_vars

C5_NotFoundSignalled ==
    [][ ( /\ editing_id # None
          /\ editing_id \notin Ids(schedule)
          /\ Accepted )
        => (schedule' = schedule /\ message' # "none") ]_vars

\* C6: delete_class_callback(id) removes exactly the entry with that id and
\* keeps the others in order; on an id that is not there (a second call, an
\* id never issued) it raises nothing and leaves the schedule as it is.
C6_DeleteIdempotent ==
    [][ \A id \in 1..MaxUuid :
          delete_class_callback(id)
          => /\ id \notin Ids(schedule')
             /\ message' # "error"
             /\ IF id \in Ids(schedule)
                THEN \E k \in 1..Len(schedule) :
                       /\ schedule[k].id = id
                       /\ schedule' = SubSeq(schedule, 1, k - 1)
                                      \o SubSeq(schedule, k + 1, Len(schedule))
                ELSE schedule' = schedule ]_vars

\* a delete has just removed one of three entries
C6_Witness ==
    /\ message = "deleted"
    /\ Len(schedule) = 2
    /\ uuid_calls = 3

\* the stored form of the class 09:00-10:00 on the first configured day
IsNineToTenOnFirstDay(cls) ==
    /\ cls.day = DAYS[1]
    /\ cls.startTime = <<"0", "9", ":", "0", "0">>
    /\ cls.endTime = <<"1", "0", ":", "0", "0">>

\* C7 as stated: the entry 09:00-10:00 on the first configured day is laid
\* out with dayIndex 0, verticalOffset 48 and height 96.
C7_LayoutAsStated ==
    \A i \in 1..Len(schedule) :
        IsNineToTenOnFirstDay(schedule[i])
        => /\ day_index(schedule[i]) = 0
           /\ RatEq(top_offset(schedule[i]), RatOfInt(48))
           /\ RatEq(height_px(schedule[i]), RatOfInt(96))

\* C7 amended: the entry 09:00-10:00 on the first configured day is laid out
\* with dayIndex 0, verticalOffset 96 and height 96.
C7_Layout ==
    \A i \in 1..Len(schedule) :
        IsNineToTenOnFirstDay(schedule[i])
        => /\ day_index(schedule[i]) = 0
           /\ RatEq(top_offset(schedule[i]), RatOfInt(96))
           /\ RatEq(height_px(schedule[i]), RatOfInt(96))

\* the entry 09:00-10:00 on Monday is in the schedule
C7_Witness ==
    \E i \in 1..Len(schedule) : IsNineToTenOnFirstDay(schedule[i])

\* C8: for any two stored entries, a duration twice as long gives a height
\* twice as large, and on the same day a later startTime never gives a
\* smaller top offset.
C8_LayoutLinear ==
    \A i, j \in 1..Len(schedule) :
        LET a == schedule[i]
            b == schedule[j] IN
        /\ duration_minutes(a) = 2 * duration_minutes(b)
             => RatEq(height_px(a), RatTimes(2, height_px(b)))
        /\ ( /\ a.day = b.day
             /\ TimeGE(strptime(a.startTime), strptime(b.startTime)) )
             => RatLE(top_offset(b), top_offset(a))

\* two entries of the same day, one starting later and half as long
C8_Witness ==
    \E i, j \in 1..Len(schedule) :
        /\ schedule[i].day = schedule[j].day
        /\ duration_minutes(schedule[i]) = 2 * duration_minutes(schedule[j])
        /\ ~TimeGE(strptime(schedule[i].startTime),
                   strptime(schedule[j].startTime))

\* C9: whenever editing_id is not None it is the id of an entry of the
\* schedule, and the form is open.
C9_EditingIdPresent ==
    editing_id # None => (editing_id \in Ids(schedule) /\ modal_open)

\* C10: the data validated and stored on a press of the submit button are
\* the values the widgets hold at that moment; in add mode, valid values
\* add exactly one entry that carries them.
C10_SubmitsWidgetValues ==
    [][ \A w \in WidgetValues :
          (modal_open /\ add_update_class(w))
          => /\ Rejected(WidgetData(w)) => schedule' = schedule
             /\ (~Rejected(WidgetData(w)) /\ editing_id = None)
                  => /\ Len(schedule') = Len(schedule) + 1
                     /\ \A k \in DOMAIN ItemData(WidgetData(w)) :
                          schedule'[Len(schedule')][k]
                              = ItemData(WidgetData(w))[k] ]_vars

====
